---- MODULE Spec2Model ----
(***************************************************************************)
(* ReconX (reconx.py): the module registry and loader, the sequential      *)
(* dispatch loop run_modules, and the console pass of main.                *)
(*                                                                         *)
(* A Python string is a sequence of lexemes (a blank, a comma, a word);    *)
(* Text gives the string itself.  split and strip work on the lexemes as   *)
(* str.split(",") and str.strip() work on the characters.  The probe       *)
(* modules, importlib and the clock are the environment: each of their     *)
(* answers is a choice among the answers they can give.                    *)
(***************************************************************************)
EXTENDS Integers, Sequences, FiniteSets, TLC

\* ---------------------------------------------------------------- bounds

\* Longest --modules argument, in lexemes.
MaxArgLen == 5
\* Largest reading of the wall clock, in ticks.
MaxClock == 2

\* ------------------------------------------------------------- constants

\* Clock ticks in one hundredth of a second (the unit round(elapsed, 2)
\* keeps).  Odd, so that no reading falls half way between two hundredths.
TicksPerHundredth == 3

Space == " "
Comma == ","
Words == {"dns", "whois", "nope"}
Lexemes == {Space, Comma} \cup Words

AVAILABLE_MODULES ==
    [dns      |-> "modules.dns_lookup",
     whois    |-> "modules.whois_lookup",
     headers  |-> "modules.headers",
     portscan |-> "modules.portscan"]

\* What importlib can say when an import fails.
ImportCauses == {"No module named 'modules'"}
\* str(e) of the Exceptions a module's run can raise; TimeoutError() has str "".
ExcMessages == {"", "timed out"}
\* What a module can raise that is a BaseException and no Exception: sys.exit()
\* raises the first, Ctrl-C the second.
BaseExceptions == {"SystemExit", "KeyboardInterrupt"}
\* The attributes of the class _C, which stands in for colorama's Fore and Style.
_C == {"RESET", "GREEN", "YELLOW", "RED"}
\* What a module's run can return; it is stored and printed as it is.
Data == {"93.184.216.34"}
\* The attribute "run" of an imported module.
RunAttrs == {"function", "no attribute", "not callable"}
NotImported == "not imported"
ClockReadings == 0..MaxClock

\* ------------------------------------------------------- pure functions

RECURSIVE Text(_)
\* The Python string a sequence of lexemes stands for.
Text(s) == IF s = <<>> THEN "" ELSE Head(s) \o Text(Tail(s))

RECURSIVE lstrip(_)
lstrip(s) == IF s # <<>> /\ Head(s) = Space THEN lstrip(Tail(s)) ELSE s

RECURSIVE rstrip(_)
rstrip(s) ==
    IF s # <<>> /\ s[Len(s)] = Space THEN rstrip(SubSeq(s, 1, Len(s) - 1)) ELSE s

\* str.strip()
strip(s) == rstrip(lstrip(s))

RECURSIVE split(_)
\* str.split(","): always at least one piece, empty pieces kept.
split(s) ==
    IF \A k \in 1..Len(s) : s[k] # Comma
    THEN <<s>>
    ELSE LET k == CHOOSE k \in 1..Len(s) :
                      s[k] = Comma /\ \A j \in 1..(k - 1) : s[j] # Comma
         IN  <<SubSeq(s, 1, k - 1)>> \o split(SubSeq(s, k + 1, Len(s)))

RECURSIVE StripEach(_)
StripEach(ps) == IF ps = <<>> THEN <<>> ELSE <<strip(Head(ps))>> \o StripEach(Tail(ps))

NonBlank(m) == strip(m) # <<>>

\* main: [m.strip() for m in args.modules.split(",") if m.strip()]
ParseModules(a) == StripEach(SelectSeq(split(a), NonBlank))

\* A variant of round2 that cuts the digits after the second instead.
round2Floor(x) == x \div TicksPerHundredth

\* round(elapsed, 2): ticks to the nearest hundredth of a second.
round2(x) == (2 * x + TicksPerHundredth) \div (2 * TicksPerHundredth)

\* callable(run_fn)
callable(v) == v = "function"

\* getattr(mod, "run", None)
getattr_run(m) == IF m = "no attribute" THEN "None" ELSE m

\* str(ValueError(f"Unknown module '{name}'"))
UnknownMessage(n) == "Unknown module '" \o n \o "'"

\* str(ImportError(f"Failed to import module '{name}' ({mod_path}): {e}"))
ImportMessage(n, e) ==
    "Failed to import module '" \o n \o "' (" \o AVAILABLE_MODULES[n] \o "): " \o e

MissingRunMessage == "module missing run(target, options) function"

\* A variant of Failure that also carries the other variant's keys.
FailureBoth(msg) == [error |-> msg, elapsed |-> 0, data |-> "None"]

\* {"error": msg}
Failure(msg) == [error |-> msg]

\* {"elapsed": round(elapsed, 2), "data": res}
Success(e, d) == [elapsed |-> round2(e), data |-> d]

\* A variant of Put that keeps an entry the mapping already has.
PutIfAbsent(r, key, v) ==
    [x \in DOMAIN r \cup {key} |-> IF x \in DOMAIN r THEN r[x] ELSE v]

\* results[name] = v
Put(r, key, v) == [x \in DOMAIN r \cup {key} |-> IF x = key THEN v ELSE r[x]]

\* results.get(mod, {"error": "no result"}), with whether the default was used
Get(r, key) ==
    IF key \in DOMAIN r THEN [payload |-> r[key], fallback |-> FALSE]
    ELSE [payload |-> [error |-> "no result"], fallback |-> TRUE]

\* The section main prints for one requested module: an error section (title
\* "[mod] ERROR", then the message) if the payload has the key error, else a
\* success section (title "[mod] (elapsed: ...s)", then the data).
Section(m, r) ==
    LET g == Get(r, Text(m)) IN
    IF "error" \in DOMAIN g.payload
    THEN [mod |-> Text(m), kind |-> "ERROR", body |-> g.payload.error,
          fallback |-> g.fallback]
    ELSE [mod |-> Text(m), kind |-> "elapsed", elapsed |-> g.payload.elapsed,
          body |-> g.payload.data, fallback |-> g.fallback]

\* ----------------------------------------------------------------- state

VARIABLES
    entry,        \* "main": the program; "run_modules": a direct call
    arg,          \* args.modules, a sequence of lexemes
    pc,           \* where control is
    modules,      \* main's list of requested names
    module_names, \* run_modules' parameter
    i,            \* position of the for loop of run_modules in module_names
    sys_modules,  \* importlib's cache: the run attribute of each imported module
    results,      \* the mapping run_modules builds
    start,        \* local start: the clock reading before the run call
    elapsed,      \* local elapsed: the second reading minus start, in ticks
    log,          \* the calls made and the entries stored, in order
    out,          \* the sections main has printed
    colorama,     \* whether "from colorama import ..." succeeded
    no_color,     \* args.no_color
    uncaught      \* the exception that left the program, "None" if none did

vars == <<entry, arg, pc, modules, module_names, i, sys_modules, results,
          start, elapsed, log, out, colorama, no_color, uncaught>>

\* What the program is started with.
env == <<entry, arg, colorama, no_color>>

RECURSIVE SeqsUpTo(_)
SeqsUpTo(n) ==
    IF n = 0 THEN {<<>>}
    ELSE LET shorter == SeqsUpTo(n - 1)
         IN  shorter \cup {Append(s, x) : s \in {t \in shorter : Len(t) = n - 1},
                                           x \in Lexemes}

Args == SeqsUpTo(MaxArgLen)

\* A variant of ItemAt that walks the list from its end.
ItemAtReversed(p) == module_names[Len(module_names) + 1 - p]

\* for name in module_names: the item the loop is at in its p-th round
ItemAt(p) == module_names[p]

\* A variant of name that does not strip.
nameRaw == ItemAt(i)

\* name = name.strip()
name == strip(ItemAt(i))

key == Text(name)

\* Before the first step: main is about to parse args.modules, or run_modules
\* has been called with the raw comma-separated pieces of it.  The locals
\* start and elapsed are unbound (0), nothing is imported, results is empty.
\* colorama is installed or not and --no-color is given or not; run_modules
\* reads neither, so a direct call is started with one choice of them.
Init ==
    /\ entry \in {"main", "run_modules"}
    /\ arg \in Args
    /\ colorama \in BOOLEAN
    /\ no_color \in BOOLEAN
    /\ entry = "run_modules" => (colorama /\ ~no_color)
    /\ uncaught = "None"
    /\ pc = IF entry = "main" THEN "main" ELSE "for"
    /\ modules = <<>>
    /\ module_names = IF entry = "main" THEN <<>> ELSE split(arg)
    /\ i = 1
    /\ sys_modules = [n \in DOMAIN AVAILABLE_MODULES |-> NotImported]
    /\ results = << >>
    /\ start = 0
    /\ elapsed = 0
    /\ log = <<>>
    /\ out = <<>>

\* What the global Style is bound to when main prints its banner: colorama's
\* Style, or an instance of _C when the import of colorama failed (lines 8-19)
\* or --no-color was given (lines 89-97).
Style == IF colorama /\ ~no_color THEN "colorama.Style" ELSE "_C"

\* Whether reading attribute a of an instance of cls succeeds.
hasattr(cls, a) == IF cls = "_C" THEN a \in _C ELSE TRUE

\* main, lines 89-106: bind Style, parse the argument, print the banner and
\* call run_modules.
MainParse ==
    /\ pc = "main"
    /\ hasattr(Style, "RESET_ALL")
    /\ modules' = ParseModules(arg)
    /\ module_names' = ParseModules(arg)
    /\ pc' = "for"
    /\ UNCHANGED <<env, uncaught, i, sys_modules, results, start, elapsed, log, out>>

\* main, lines 89-100: Style has no attribute RESET_ALL; the banner raises
\* AttributeError, which nothing catches: run_modules is never called and
\* nothing is printed.
MainAttributeError ==
    /\ pc = "main"
    /\ ~hasattr(Style, "RESET_ALL")
    /\ modules' = ParseModules(arg)
    /\ pc' = "crashed"
    /\ uncaught' = "AttributeError"
    /\ UNCHANGED <<env, module_names, i, sys_modules, results, start, elapsed, log, out>>

InLoop == pc = "for" /\ i <= Len(module_names)

\* lines 63-65: a blank name is skipped.
SkipBlank ==
    /\ InLoop
    /\ name = <<>>
    /\ i' = i + 1
    /\ UNCHANGED <<env, uncaught, pc, modules, module_names, sys_modules, results,
                   start, elapsed, log, out>>

\* Record the entry stored for position p and move to the next name.
StoreAndContinue(p, payload, events) ==
    /\ results' = Put(results, key, payload)
    /\ log' = log \o events \o <<[op |-> "store", pos |-> p, payload |-> payload]>>
    /\ i' = i + 1
    /\ pc' = "for"

\* lines 52-53, 68-70: the name is not in the registry.
LoadUnknown ==
    /\ InLoop
    /\ name # <<>>
    /\ key \notin DOMAIN AVAILABLE_MODULES
    /\ StoreAndContinue(i, Failure(UnknownMessage(key)),
                        <<[op |-> "load", pos |-> i, name |-> key, got |-> "ValueError"]>>)
    /\ UNCHANGED <<env, uncaught, modules, module_names, sys_modules, start, elapsed, out>>

\* lines 55-58, 68-70: the import fails.
LoadImportFails ==
    /\ InLoop
    /\ name # <<>>
    /\ key \in DOMAIN AVAILABLE_MODULES
    /\ sys_modules[key] = NotImported
    /\ \E e \in ImportCauses :
          StoreAndContinue(i, Failure(ImportMessage(key, e)),
                           <<[op |-> "load", pos |-> i, name |-> key,
                              got |-> "ImportError"]>>)
    /\ UNCHANGED <<env, uncaught, modules, module_names, sys_modules, start, elapsed, out>>

\* lines 55-57, 67-68: the import raises a BaseException that is no Exception
\* (the module calls sys.exit() when it is imported, or is interrupted); neither
\* handler takes it, it leaves run_modules, and main, with nothing stored.
LoadExits ==
    /\ InLoop
    /\ name # <<>>
    /\ key \in DOMAIN AVAILABLE_MODULES
    /\ sys_modules[key] = NotImported
    /\ \E x \in BaseExceptions :
          /\ log' = Append(log, [op |-> "load", pos |-> i, name |-> key, got |-> x])
          /\ uncaught' = x
    /\ pc' = "crashed"
    /\ UNCHANGED <<env, modules, module_names, i, sys_modules, results, start,
                   elapsed, out>>

\* lines 54-56, 67: the import succeeds, or the module is already imported.
LoadOk ==
    /\ InLoop
    /\ name # <<>>
    /\ key \in DOMAIN AVAILABLE_MODULES
    /\ \E a \in RunAttrs :
          /\ sys_modules[key] \in {NotImported, a}
          /\ sys_modules' = [sys_modules EXCEPT ![key] = a]
          /\ log' = Append(log, [op |-> "load", pos |-> i, name |-> key, got |-> a])
    /\ pc' = "loaded"
    /\ UNCHANGED <<env, uncaught, modules, module_names, i, results, start, elapsed, out>>

\* mod, the module load_module_by_name returned
mod == sys_modules[key]

\* lines 72-75: the module has no callable run.
MissingRun ==
    /\ pc = "loaded"
    /\ ~callable(getattr_run(mod))
    /\ StoreAndContinue(i, Failure(MissingRunMessage), <<>>)
    /\ UNCHANGED <<env, uncaught, modules, module_names, sys_modules, start, elapsed, out>>

\* lines 72-73, 78-79: read the clock and call run.
CallRun ==
    /\ pc = "loaded"
    /\ callable(getattr_run(mod))
    /\ \E t \in ClockReadings : start' = t
    /\ log' = log \o <<[op |-> "time", pos |-> i], [op |-> "call", pos |-> i]>>
    /\ pc' = "running"
    /\ UNCHANGED <<env, uncaught, modules, module_names, i, sys_modules, results,
                   elapsed, out>>

\* lines 79-82: run returns; read the clock again and store the success.
RunReturns ==
    /\ pc = "running"
    /\ \E d \in Data, t \in ClockReadings :
          /\ elapsed' = t - start
          /\ StoreAndContinue(i, Success(t - start, d),
                              <<[op |-> "return", pos |-> i], [op |-> "time", pos |-> i]>>)
    /\ UNCHANGED <<env, uncaught, modules, module_names, sys_modules, start, out>>

\* lines 79, 83: run raises a BaseException that is no Exception (it calls
\* sys.exit(), or is interrupted); the handler does not take it, it leaves
\* run_modules, and main, with nothing stored for the module.
RunExits ==
    /\ pc = "running"
    /\ \E x \in BaseExceptions :
          /\ log' = Append(log, [op |-> "raise", pos |-> i, exc |-> x])
          /\ uncaught' = x
    /\ pc' = "crashed"
    /\ UNCHANGED <<env, modules, module_names, i, sys_modules, results, start,
                   elapsed, out>>

\* lines 79, 83-84: run raises an Exception; the failure is stored.
RunRaises ==
    /\ pc = "running"
    /\ \E m \in ExcMessages :
          StoreAndContinue(i, Failure(m),
                           <<[op |-> "raise", pos |-> i, exc |-> "Exception", msg |-> m]>>)
    /\ UNCHANGED <<env, uncaught, modules, module_names, sys_modules, start, elapsed, out>>

\* line 85: the loop is over, run_modules returns; its frame, and with it the
\* locals start and elapsed, is gone (0 stands for an unbound local).
Return ==
    /\ pc = "for"
    /\ i > Len(module_names)
    /\ pc' = "returned"
    /\ start' = 0
    /\ elapsed' = 0
    /\ UNCHANGED <<env, uncaught, modules, module_names, i, sys_modules, results,
                   log, out>>

\* main, lines 109-114: print one section for each requested module.
\* pretty_print_section reads Style.RESET_ALL when no_color is false; main gets
\* here only with colorama's Style (MainParse), which has it.
Render ==
    /\ pc = "returned"
    /\ entry = "main"
    /\ out' = [k \in 1..Len(modules) |-> Section(modules[k], results)]
    /\ pc' = "done"
    /\ UNCHANGED <<env, uncaught, modules, module_names, i, sys_modules, results,
                   start, elapsed, log>>

Next ==
    \/ MainParse
    \/ MainAttributeError
    \/ SkipBlank
    \/ LoadUnknown
    \/ LoadImportFails
    \/ LoadExits
    \/ LoadOk
    \/ MissingRun
    \/ CallRun
    \/ RunReturns
    \/ RunRaises
    \/ RunExits
    \/ Return
    \/ Render

Spec == Init /\ [][Next]_vars

\* ------------------------------------------------------------ properties

LogIdx == DOMAIN log
Ops(op) == {a \in LogIdx : log[a].op = op}
Positions == 1..Len(module_names)
\* The trimmed name requested at position p.
NameAt(p) == Text(strip(module_names[p]))
NonBlankPositions == {p \in Positions : strip(module_names[p]) # <<>>}
IsFailure(x) == DOMAIN x = {"error"}
IsSuccess(x) == DOMAIN x = {"elapsed", "data"}
\* run_modules has returned.
Returned == pc \in {"returned", "done"}
\* The run is over: run_modules has returned, or an exception has left the
\* program.
Ended == Returned \/ pc = "crashed"
\* Every non-blank position of Q was loaded, and run if the load gave a module
\* with a run function.
AllRan(Q) ==
    LET loads == Ops("load")
        calls == Ops("call")
        ends  == Ops("return") \cup Ops("raise")
    IN  \A q \in Q :
           \E b \in loads :
              /\ log[b].pos = q
              /\ log[b].got = "function" =>
                    /\ \E c \in calls : log[c].pos = q
                    /\ \E d \in ends : log[d].pos = q
\* The trimmed non-blank names of the --modules argument, as a set.
RequestedNames ==
    LET pieces == split(arg)
    IN  {Text(strip(pieces[k])) : k \in DOMAIN pieces} \ {""}

\* C1 as stated: whatever a module's run raises is caught where run is called
\* and a Failure entry is stored for that name at once; it never ends the
\* program, and when the run is over every non-blank name requested after
\* the failing one was loaded and run.
C1_RaiseIsContained ==
    /\ \A a \in Ops("raise") :
          /\ a < Len(log)
          /\ log[a + 1].op = "store"
          /\ log[a + 1].pos = log[a].pos
          /\ IsFailure(log[a + 1].payload)
          /\ NameAt(log[a].pos) \in DOMAIN results
          /\ Ended => AllRan({q \in NonBlankPositions : q > log[a].pos})
    /\ Ops("raise") # {} => uncaught = "None"

\* C2: when run_modules has returned, the keys of results are exactly the
\* distinct non-blank trimmed names of the request, whatever blanks and
\* repetitions it holds; and no other key is ever in results.
C2_OneEntryPerName ==
    LET requested == RequestedNames IN
    /\ DOMAIN results \subseteq requested
    /\ Returned =>
          /\ DOMAIN results = requested
          /\ DOMAIN results = {NameAt(p) : p \in Positions} \ {""}

C2_Witness ==
    /\ Returned
    /\ entry = "run_modules"
    /\ Cardinality(DOMAIN results) = 1
    /\ \E p, q \in NonBlankPositions : p # q /\ NameAt(p) = NameAt(q)
    /\ \E p \in Positions : module_names[p] # <<>> /\ strip(module_names[p]) = <<>>

\* C3 as stated: a requested name that is no key of the registry gets the
\* Failure whose message says the module is unknown and quotes the name, and
\* when the run is over every other requested non-blank name has an entry too.
C3_UnknownName ==
    /\ \A a \in Ops("store") :
          LET n == NameAt(log[a].pos) IN
          n \notin DOMAIN AVAILABLE_MODULES =>
             /\ log[a].payload = [error |-> "Unknown module '" \o n \o "'"]
             /\ n \in DOMAIN results
             /\ results[n] = [error |-> "Unknown module '" \o n \o "'"]
    /\ Ended =>
          \A p \in NonBlankPositions :
             NameAt(p) \notin DOMAIN AVAILABLE_MODULES =>
                /\ NameAt(p) \in DOMAIN results
                /\ \A q \in NonBlankPositions : NameAt(q) \in DOMAIN results

\* C4 as stated: when a module's run raises, the run goes on to its end and
\* the entry stored for the module is a Failure with a non-empty message.
C4_MessageNonEmpty ==
    /\ \A a \in Ops("raise") :
          /\ a < Len(log)
          /\ log[a + 1].op = "store"
          /\ IsFailure(log[a + 1].payload)
          /\ log[a + 1].payload.error # ""
    /\ (Ended /\ Ops("raise") # {}) => Returned

\* C5: the calls happen in request order: positions never go back in the log,
\* each load is for the name requested at its position, and when a load
\* begins every earlier run call has returned or raised.
C5_Sequential ==
    /\ \A a \in LogIdx : a > 1 => log[a - 1].pos <= log[a].pos
    /\ \A a \in Ops("load") :
          /\ log[a].pos \in NonBlankPositions
          /\ log[a].name = NameAt(log[a].pos)
          /\ \A c \in Ops("call") :
                c < a => /\ c + 1 < a
                         /\ log[c + 1].op \in {"return", "raise"}
                         /\ log[c + 1].pos = log[c].pos
    /\ \A c \in Ops("call") :
          /\ c > 2
          /\ log[c - 2].op = "load"
          /\ log[c - 2].pos = log[c].pos

C5_Witness ==
    /\ Returned
    /\ \E a \in Ops("raise"), c \in Ops("return") :
          /\ log[a].pos < log[c].pos
          /\ NameAt(log[a].pos) # NameAt(log[c].pos)

\* C6 as stated: a loaded module without a callable run gets the Failure with
\* the fixed message, nothing of it is called (not even the clock is read for
\* it), and when the run is over every other requested name was loaded and run.
C6_MissingRun ==
    \A a \in Ops("load") :
        log[a].got \in {"no attribute", "not callable"} =>
           /\ \A b \in LogIdx :
                 log[b].pos = log[a].pos => log[b].op \in {"load", "store"}
           /\ a < Len(log) =>
                 log[a + 1] = [op |-> "store", pos |-> log[a].pos,
                               payload |-> [error |-> "module missing run(target, options) function"]]
           /\ a = Len(log) => pc = "loaded"
           /\ Ended => AllRan(NonBlankPositions \ {log[a].pos})

\* The non-blank pieces of the --modules argument, in order.
NonBlankPieces == SelectSeq(split(arg), NonBlank)

\* C7 as stated: when main is over it has printed one section per requested
\* non-blank name, in request order, an error section exactly when the entry
\* is a Failure, and never the "no result" default.
C7_OneSectionPerRequest ==
    (entry = "main" /\ pc \in {"done", "crashed"}) =>
       LET pieces == NonBlankPieces IN
       /\ Len(out) = Len(pieces)
       /\ \A k \in 1..Len(out) :
             /\ k <= Len(pieces)
             /\ out[k].mod = Text(strip(pieces[k]))
             /\ ~out[k].fallback
             /\ out[k].mod \in DOMAIN results
             /\ out[k].kind = IF IsFailure(results[out[k].mod]) THEN "ERROR" ELSE "elapsed"

\* The last thing that happened is the storing of a Success.
JustSucceeded ==
    /\ pc = "for"
    /\ log # <<>>
    /\ log[Len(log)].op = "store"
    /\ IsSuccess(log[Len(log)].payload)

\* The six last calls are load, clock, run, its return, clock, store, all of
\* one position: the two readings are taken right around the run call, after
\* the load.
ReadingsAroundRunOnly ==
    /\ Len(log) >= 6
    /\ LET n == Len(log) IN
       /\ <<log[n - 5].op, log[n - 4].op, log[n - 3].op, log[n - 2].op,
            log[n - 1].op, log[n].op>>
             = <<"load", "time", "call", "return", "time", "store">>
       /\ \A a \in (n - 5)..n : log[a].pos = log[n].pos

\* C8 as stated: the stored elapsed value is >= 0 and is the difference of
\* the two readings taken right around the run call.
C8_ElapsedIsDifference ==
    JustSucceeded =>
       /\ log[Len(log)].payload.elapsed >= 0
       /\ log[Len(log)].payload.elapsed * TicksPerHundredth = elapsed
       /\ ReadingsAroundRunOnly

\* C8, amended: the stored elapsed value is the difference of the two readings
\* taken right around the run call (the load is before the first), rounded to
\* the nearest hundredth of a second; it is >= 0 whenever the second reading
\* is not below the first.
C8_ElapsedIsRoundedDifference ==
    JustSucceeded =>
       LET stored == log[Len(log)].payload.elapsed * TicksPerHundredth IN
       /\ 2 * (stored - elapsed) < TicksPerHundredth
       /\ 2 * (elapsed - stored) < TicksPerHundredth
       /\ elapsed >= 0 => log[Len(log)].payload.elapsed >= 0
       /\ ReadingsAroundRunOnly
       /\ results[NameAt(log[Len(log)].pos)] = log[Len(log)].payload

C8_Witness ==
    /\ JustSucceeded
    /\ elapsed = 2
    /\ log[Len(log)].payload.elapsed = 1
    /\ Len(log) > 6

\* C9: in every state each entry of results has either the keys elapsed and
\* data, or the key error alone.
C9_ExactlyOneVariant ==
    \A n \in DOMAIN results :
        /\ IsSuccess(results[n]) \/ IsFailure(results[n])
        /\ "error" \in DOMAIN results[n] => DOMAIN results[n] = {"error"}

C9_Witness ==
    /\ pc = "running"
    /\ \E n, m \in DOMAIN results : IsSuccess(results[n]) /\ IsFailure(results[m])

\* C10: every occurrence of a name the loop has passed was loaded once, run
\* once if the load gave a module with a run function, and had one entry
\* stored; the entry of a name is the one stored for its last occurrence so far.
C10_LastWriteWins ==
    LET stores == Ops("store")
        loads  == Ops("load")
        calls  == Ops("call")
    IN
    /\ \A a \in loads : \A b \in loads : log[a].pos = log[b].pos => a = b
    /\ \A a \in calls : \A b \in calls : log[a].pos = log[b].pos => a = b
    /\ \A a \in stores : \A b \in stores : log[a].pos = log[b].pos => a = b
    /\ \A a \in stores : \E b \in loads : b < a /\ log[b].pos = log[a].pos
    /\ \A p \in NonBlankPositions :
          p < i => /\ \E b \in loads : log[b].pos = p
                   /\ \E a \in stores : log[a].pos = p
    /\ \A a \in loads :
          log[a].got = "function" =>
             (a < Len(log) => log[a + 2].op = "call" /\ log[a + 2].pos = log[a].pos)
    /\ \A a \in stores :
          LET n == NameAt(log[a].pos) IN
          (\A b \in stores : b > a => NameAt(log[b].pos) # n)
             => /\ n \in DOMAIN results
                /\ results[n] = log[a].payload

C10_Witness ==
    /\ Returned
    /\ \E a, b, c \in Ops("store") :
          /\ a < b /\ b < c
          /\ NameAt(log[a].pos) = NameAt(log[b].pos)
          /\ NameAt(log[b].pos) = NameAt(log[c].pos)
          /\ IsSuccess(log[a].payload)
          /\ IsFailure(log[b].payload)
          /\ IsSuccess(log[c].payload)
          /\ log[c].payload # log[a].payload
          /\ results[NameAt(log[c].pos)] = log[c].payload

====
